---- MODULE Spec2Model ----
(***************************************************************************)
(* NiceMusicLibrary backend: the authentication core.                      *)
(*                                                                         *)
(*   app/core/security.py   JWT creation/decoding, bcrypt hashing          *)
(*   app/services/auth.py   AuthService: register, login, refresh_tokens,  *)
(*                          get_current_user                               *)
(*   app/api/auth.py        the /register, /login, /refresh endpoints      *)
(*   app/api/deps.py        the get_current_user dependency                *)
(*                                                                         *)
(* Every request runs in one of the request slots of Procs.  A handler is  *)
(* cut at its awaits (the database round trips): between two of them       *)
(* another request, the clock, or account management may take a step.      *)
(* Time is counted in clock ticks, TicksPerSec of them to the second;      *)
(* datetime.now(UTC) reads the ticks, a JWT "exp" holds whole seconds.     *)
(***************************************************************************)
EXTENDS Integers, FiniteSets, Sequences, TLC

----------------------------------------------------------------------------
(* Bounds of the model *)

\* clock resolution: ticks in one second (datetime has sub-second precision)
TicksPerSec == 3

\* the clock stops advancing at this tick
MaxTime == 7

\* accounts ever inserted (each takes a fresh id)
MaxIds == 2

\* how many songs are uploaded, and how often a song is played
MaxSongs == 2

MaxPlays == 2

----------------------------------------------------------------------------
(* Configuration (app.core.config.settings), in a scaled unit of time:     *)
(* a "minute" of the model lasts SecondsPerMinute seconds and a "day"      *)
(* SecondsPerDay seconds, so that both lifetimes fit under MaxTime.        *)

ACCESS_TOKEN_EXPIRE_MINUTES == 1

REFRESH_TOKEN_EXPIRE_DAYS == 1

SecondsPerMinute == 1

SecondsPerDay == 2

SECRET_KEY == "settings.SECRET_KEY"

OtherKey == "another-secret"

----------------------------------------------------------------------------
(* Input domains *)

Procs == {"r1", "r2"}

Emails == {"a@x.com", "b@x.com"}

Usernames == {"alice", "bob"}

Passwords == {"Passw0rd1", "Other0pass"}

Salts == {"salt1", "salt2"}

Ids == 1..MaxIds

NoId == 0

Never == -1

----------------------------------------------------------------------------
(* app/core/security.py *)

\* timegm(dt.utctimetuple()): a datetime, in ticks, as whole seconds
timegm(ticks) == ticks \div TicksPerSec

\* mutant: the expiry is encoded as it is given, fraction of a second included
jwt_encode_keeps_fraction(claims, key) ==
    [claims |-> claims, sig |-> key, intact |-> TRUE]

\* jose.jwt.encode: datetime claims become whole seconds, then the claims
\* are signed with the key.  A token is its claims, the key that signed it
\* and whether its three segments are intact.
jwt_encode(claims, key) ==
    [claims |-> [sub |-> claims.sub, exp |-> timegm(claims.exp), type |-> claims.type],
     sig |-> key, intact |-> TRUE]

\* expires_delta = None; timedelta(0) is as falsy as None
NoDelta == 0

\* create_access_token up to the encoding: expire = now + (expires_delta or TTL)
access_claims(subject, expires_delta, nowTicks) ==
    [sub |-> subject,
     exp |-> IF expires_delta # NoDelta
             THEN nowTicks + expires_delta
             ELSE nowTicks + ACCESS_TOKEN_EXPIRE_MINUTES * SecondsPerMinute * TicksPerSec,
     type |-> "access"]

refresh_claims(subject, expires_delta, nowTicks) ==
    [sub |-> subject,
     exp |-> IF expires_delta # NoDelta
             THEN nowTicks + expires_delta
             ELSE nowTicks + REFRESH_TOKEN_EXPIRE_DAYS * SecondsPerDay * TicksPerSec,
     type |-> "refresh"]

create_access_token(subject, expires_delta, nowTicks) ==
    jwt_encode(access_claims(subject, expires_delta, nowTicks), SECRET_KEY)

create_refresh_token(subject, expires_delta, nowTicks) ==
    jwt_encode(refresh_claims(subject, expires_delta, nowTicks), SECRET_KEY)

\* the one value decode_token returns for every JWTError
None == [none |-> TRUE]

\* a JWT without the exp claim: jwt.decode verifies exp only when present
NoExp == -100

\* mutant: a token is rejected from the second of its expiry on
decode_token_le(token, nowTicks) ==
    IF ~token.intact THEN None
    ELSE IF token.sig # SECRET_KEY THEN None
    ELSE IF token.claims.exp # NoExp /\ token.claims.exp <= timegm(nowTicks) THEN None
    ELSE token.claims

\* mutant: the expiry is not verified
decode_token_no_expiry(token, nowTicks) ==
    IF ~token.intact THEN None
    ELSE IF token.sig # SECRET_KEY THEN None
    ELSE token.claims

\* jose.jwt.decode under SECRET_KEY: the segments, then the signature, then
\* exp < now (in whole seconds) is ExpiredSignatureError; all are JWTErrors
decode_token(token, nowTicks) ==
    IF ~token.intact THEN None
    ELSE IF token.sig # SECRET_KEY THEN None
    ELSE IF token.claims.exp # NoExp /\ token.claims.exp < timegm(nowTicks) THEN None
    ELSE token.claims

\* mutant: the password is stored as it was given
get_password_hash_plaintext(password, salt) ==
    [scheme |-> "plaintext", salt |-> "", digest |-> <<"", password>>]

\* pwd_context.hash: bcrypt with a random salt; the digest is one-way, the
\* model keeps it as the pair it was computed from
get_password_hash(password, salt) ==
    [scheme |-> "bcrypt", salt |-> salt, digest |-> <<salt, password>>]

\* mutant: the digest is recomputed without the salt of the stored hash
verify_password_unsalted(plain_password, hashed_password) ==
    hashed_password.digest = <<"", plain_password>>

\* pwd_context.verify: recompute under the hash's own salt and compare
verify_password(plain_password, hashed_password) ==
    hashed_password.digest = <<hashed_password.salt, plain_password>>

\* pwd_context.verify does not return for every hash: it raises
\* UnknownHashError for a hash of no scheme of the context and ValueError
\* for a bcrypt hash that is malformed; "" when it returns
verify_password_raises(hashed_password) ==
    IF hashed_password.scheme # "bcrypt" THEN "UnknownHashError"
    ELSE IF hashed_password.digest = <<>> THEN "ValueError"
    ELSE ""

\* stored hashes get_password_hash does not produce: another scheme, and a
\* bcrypt hash cut short
BadHashes ==
    {[scheme |-> "md5_crypt", salt |-> "salt1", digest |-> <<"salt1", "Passw0rd1">>],
     [scheme |-> "bcrypt", salt |-> "", digest |-> <<>>]}

----------------------------------------------------------------------------
(* State *)

VARIABLES
    users,     \* the committed rows of the users table
    usedIds,   \* how many account ids have been handed out
    now,       \* the clock, in ticks
    req,       \* per request slot: the handler's position and locals
    wallet,    \* a token pair a caller kept from an earlier response
    codec,     \* a direct use of the token functions: inputs and outputs
    songs,     \* the committed rows of the songs table
    files,     \* the paths of the files in storage
    usedSongs, \* how many uploads have been given a file name and an id
    calls      \* per MusicService call slot: the method's position and locals

vars == <<users, usedIds, now, req, wallet, codec, songs, files, usedSongs, calls>>

\* the state of the accounts and tokens, and the state of the music library
authVars == <<users, usedIds, now, req, wallet, codec>>

musicVars == <<songs, files, usedSongs, calls>>

NoRow == [none |-> TRUE]

NoTokens == [none |-> TRUE]

NoToken == [none |-> TRUE]

NoResult == [none |-> TRUE]

NoPair == [none |-> TRUE]

\* str(user.id) and UUID(user_id)
str_id(id) == <<"uuid", id>>

UUID(s) == s[2]

\* UUID(s) raises ValueError unless s has the form of a UUID
WellFormedUUID(s) == s[1] = "uuid"

IdleReq ==
    [op |-> "none", pc |-> "idle", email |-> "", username |-> "", password |-> "",
     token |-> NoToken, payload |-> None, user |-> None, row |-> NoRow,
     res |-> NoResult, http |-> NoResult]

\* what a service call handed back: a raised exception (exc, msg) or, with
\* exc = "", the returned user and/or token pair
Raised(exc, msg) ==
    [exc |-> exc, msg |-> msg, user |-> NoId, tokens |-> NoTokens, at |-> Never]

\* at: the clock when the tokens were created
Returned(uid, tokens, at) ==
    [exc |-> "", msg |-> "", user |-> uid, tokens |-> tokens, at |-> at]

----------------------------------------------------------------------------
(* app/services/auth.py: lookups *)

\* what UUID(user_id) raises on a string that is no UUID
ValueError == Raised("ValueError", "badly formed hexadecimal UUID string")

\* Result.scalar_one_or_none(): the row, None, or MultipleResultsFound
MultipleResults == [many |-> TRUE]

scalar_one_or_none(rows) ==
    IF rows = {} THEN None
    ELSE IF Cardinality(rows) = 1 THEN CHOOSE u \in rows : TRUE
    ELSE MultipleResults

\* select(User).where(...), on the committed rows
get_user_by_email(email) == {u \in users : u.email = email}

\* mutant: the username is looked up in the email column
get_user_by_username_in_email(username) == {u \in users : u.email = username}

get_user_by_username(username) == {u \in users : u.username = username}

get_user_by_id(user_id) == {u \in users : u.id = user_id}

\* mutant: the pair is made for one fixed account, whoever asked
_create_tokens_fixed_subject(user_id, nowTicks) ==
    [access_token |-> create_access_token(str_id(1), NoDelta, nowTicks),
     refresh_token |-> create_refresh_token(str_id(1), NoDelta, nowTicks),
     expires_in |-> ACCESS_TOKEN_EXPIRE_MINUTES * SecondsPerMinute]

\* mutant: expires_in is read back from the access token just made
_create_tokens_reads_back(user_id, nowTicks) ==
    [access_token |-> create_access_token(user_id, NoDelta, nowTicks),
     refresh_token |-> create_refresh_token(user_id, NoDelta, nowTicks),
     expires_in |-> (create_access_token(user_id, NoDelta, nowTicks).claims.exp
                        * TicksPerSec - nowTicks) \div TicksPerSec]

\* AuthService._create_tokens
_create_tokens(user_id, nowTicks) ==
    [access_token |-> create_access_token(user_id, NoDelta, nowTicks),
     refresh_token |-> create_refresh_token(user_id, NoDelta, nowTicks),
     expires_in |-> ACCESS_TOKEN_EXPIRE_MINUTES * SecondsPerMinute]

----------------------------------------------------------------------------
(* app/api/auth.py and app/api/deps.py: a service result as an HTTP response *)

HttpError(status, code, message) ==
    [status |-> status, code |-> code, message |-> message, user |-> NoId, tokens |-> NoTokens]

HttpOk(status, uid, tokens) ==
    [status |-> status, code |-> "", message |-> "", user |-> uid, tokens |-> tokens]

\* an exception no except clause of the endpoint names
Unhandled(res) == HttpError(500, "INTERNAL_SERVER_ERROR", "")

register_endpoint(res) ==
    IF res.exc = "" THEN HttpOk(201, res.user, res.tokens)
    ELSE IF res.exc = "UserAlreadyExistsError"
         THEN HttpError(400, "VALIDATION_ERROR", res.msg)
    ELSE Unhandled(res)

login_endpoint(res) ==
    IF res.exc = "" THEN HttpOk(200, res.user, res.tokens)
    ELSE IF res.exc = "InvalidCredentialsError"
         THEN HttpError(401, "INVALID_CREDENTIALS", res.msg)
    ELSE IF res.exc = "UserInactiveError"
         THEN HttpError(403, "USER_INACTIVE", res.msg)
    ELSE Unhandled(res)

\* mutant: the endpoint answers with the whole pair
refresh_token_endpoint_whole_pair(res) ==
    IF res.exc = "" THEN HttpOk(200, NoId, res.tokens)
    ELSE IF res.exc = "InvalidTokenError"
         THEN HttpError(401, "INVALID_TOKEN", res.msg)
    ELSE IF res.exc = "UserNotFoundError"
         THEN HttpError(401, "USER_NOT_FOUND", res.msg)
    ELSE IF res.exc = "UserInactiveError"
         THEN HttpError(403, "USER_INACTIVE", res.msg)
    ELSE Unhandled(res)

\* TokenResponse carries the access token and expires_in only
refresh_token_endpoint(res) ==
    IF res.exc = ""
    THEN HttpOk(200, NoId, [access_token |-> res.tokens.access_token,
                            expires_in |-> res.tokens.expires_in])
    ELSE IF res.exc = "InvalidTokenError"
         THEN HttpError(401, "INVALID_TOKEN", res.msg)
    ELSE IF res.exc = "UserNotFoundError"
         THEN HttpError(401, "USER_NOT_FOUND", res.msg)
    ELSE IF res.exc = "UserInactiveError"
         THEN HttpError(403, "USER_INACTIVE", res.msg)
    ELSE Unhandled(res)

\* mutant: the dependency has no except clause for UserInactiveError
deps_get_current_user_no_inactive(res) ==
    IF res.exc = "" THEN HttpOk(200, res.user, NoTokens)
    ELSE IF res.exc \in {"InvalidTokenError", "UserNotFoundError"}
         THEN HttpError(401, "", res.msg)
    ELSE Unhandled(res)

\* deps.get_current_user: detail is the bare message
deps_get_current_user(res) ==
    IF res.exc = "" THEN HttpOk(200, res.user, NoTokens)
    ELSE IF res.exc \in {"InvalidTokenError", "UserNotFoundError"}
         THEN HttpError(401, "", res.msg)
    ELSE IF res.exc = "UserInactiveError"
         THEN HttpError(403, "", res.msg)
    ELSE Unhandled(res)

----------------------------------------------------------------------------
(* The database session of a request (app.db.session.get_db) and the users *)
(* table (app.models.user.User)                                            *)

\* a new User row: is_active defaults to true, last_login_at to null
NewUser(id, email, username, password_hash) ==
    [id |-> id, email |-> email, username |-> username,
     password_hash |-> password_hash, is_active |-> TRUE, last_login_at |-> Never]

\* rows other requests have flushed and not yet committed
PendingOthers(p) ==
    {req[q].row : q \in {q \in Procs \ {p} : req[q].op = "register" /\ req[q].pc = "commit"}}

\* mutant: the table has no unique constraint
NoUniqueViolation(row, rows) == FALSE

\* the unique constraints on users.email and users.username, and the primary key
UniqueViolation(row, rows) ==
    \E u \in rows : u.email = row.email \/ u.username = row.username \/ u.id = row.id

\* the id a new row takes: a fresh uuid4
fresh_id == usedIds + 1

\* the request is over: the response reaches the caller
Done(p, r, res, http) ==
    req' = [req EXCEPT ![p] = [r EXCEPT !.pc = "done", !.row = NoRow,
                                        !.res = res, !.http = http]]

\* the handler awaits its next database round trip
Await(p, r, pc) == req' = [req EXCEPT ![p] = [r EXCEPT !.pc = pc]]

\* the handler returned: get_db commits the session next
ToCommit(p, r, row, res, http) ==
    req' = [req EXCEPT ![p] = [r EXCEPT !.pc = "commit", !.row = row,
                                        !.res = res, !.http = http]]

Registering == {q \in Procs : req[q].op = "register" /\ req[q].pc \notin {"idle", "done"}}

\* scalar_one_or_none raised: the exception leaves the service as it is
ManyRows == Raised("MultipleResultsFound", "")

----------------------------------------------------------------------------
(* AuthService.register, through the /register endpoint *)

\* "if existing_user: raise UserAlreadyExistsError(...)", for either lookup
register_check(existing_user, what) ==
    IF existing_user = MultipleResults THEN ManyRows
    ELSE IF existing_user # None
         THEN Raised("UserAlreadyExistsError", what)
    ELSE NoResult

RegisterStart(p, email, username, password) ==
    /\ req[p].pc = "idle"
    /\ usedIds + Cardinality(Registering) < MaxIds
    /\ LET existing_user == scalar_one_or_none(get_user_by_email(email))
           r == [IdleReq EXCEPT !.op = "register", !.email = email,
                                !.username = username, !.password = password,
                                !.user = existing_user]
           res == register_check(existing_user, "User with this email already exists")
       IN  IF res # NoResult
           THEN Done(p, r, res, register_endpoint(res))
           ELSE Await(p, r, "reg_username")
    /\ UNCHANGED <<users, usedIds, now, wallet, codec, musicVars>>

RegisterUsername(p) ==
    /\ req[p].pc = "reg_username"
    /\ LET existing_user == scalar_one_or_none(get_user_by_username(req[p].username))
           r == [req[p] EXCEPT !.user = existing_user]
           res == register_check(existing_user, "User with this username already exists")
       IN  IF res # NoResult
           THEN Done(p, r, res, register_endpoint(res))
           ELSE Await(p, r, "reg_flush")
    /\ UNCHANGED <<users, usedIds, now, wallet, codec, musicVars>>

\* User(...), db.add, await db.flush(), then _create_tokens and return.
\* The INSERT waits for an uncommitted row holding the same key and fails
\* with IntegrityError on a committed one.
HashAddFlush(p, salt) ==
    /\ LET user == NewUser(fresh_id, req[p].email, req[p].username,
                           get_password_hash(req[p].password, salt))
           r == [req[p] EXCEPT !.user = user]
       IN  /\ ~UniqueViolation(user, PendingOthers(p))
           /\ IF UniqueViolation(user, users)
              THEN /\ LET res == Raised("IntegrityError", "")
                      IN  Done(p, r, res, register_endpoint(res))
                   /\ UNCHANGED usedIds
              ELSE /\ LET res == Returned(user.id, _create_tokens(str_id(user.id), now), now)
                      IN  ToCommit(p, r, user, res, register_endpoint(res))
                   /\ usedIds' = fresh_id
    /\ UNCHANGED <<users, now, wallet, codec, musicVars>>

RegisterFlush(p, salt) ==
    /\ req[p].pc = "reg_flush"
    /\ HashAddFlush(p, salt)

\* The same, with the time get_password_hash takes made visible: bcrypt is
\* computed by a plain call inside the coroutine, on the thread of the
\* event loop, which runs no other handler until the call is over.
OnLoop == {p \in Procs : req[p].pc = "hashing"}

HashStart(p) ==
    /\ req[p].pc = "reg_flush"
    /\ OnLoop = {}
    /\ Await(p, req[p], "hashing")
    /\ UNCHANGED <<users, usedIds, now, wallet, codec, musicVars>>

HashEnd(p, salt) ==
    /\ req[p].pc = "hashing"
    /\ HashAddFlush(p, salt)

----------------------------------------------------------------------------
(* AuthService.login, through the /login endpoint *)

\* mutant: login telling an unknown email from a wrong password
login_checks_unknown_email(user, password) ==
    IF user = MultipleResults THEN ManyRows
    ELSE IF user = None
         THEN Raised("InvalidCredentialsError", "User not found")
    ELSE IF ~verify_password(password, user.password_hash)
         THEN Raised("InvalidCredentialsError", "Invalid email or password")
    ELSE IF ~user.is_active
         THEN Raised("UserInactiveError", "User account is inactive")
    ELSE NoResult

\* mutant: login checking is_active before the password
login_checks_active_first(user, password) ==
    IF user = MultipleResults THEN ManyRows
    ELSE IF user = None
         THEN Raised("InvalidCredentialsError", "Invalid email or password")
    ELSE IF ~user.is_active
         THEN Raised("UserInactiveError", "User account is inactive")
    ELSE IF ~verify_password(password, user.password_hash)
         THEN Raised("InvalidCredentialsError", "Invalid email or password")
    ELSE NoResult

\* the three checks of login, in the order of the code
login_checks(user, password) ==
    IF user = MultipleResults THEN ManyRows
    ELSE IF user = None
         THEN Raised("InvalidCredentialsError", "Invalid email or password")
    ELSE IF verify_password_raises(user.password_hash) # ""
         THEN Raised(verify_password_raises(user.password_hash), "")
    ELSE IF ~verify_password(password, user.password_hash)
         THEN Raised("InvalidCredentialsError", "Invalid email or password")
    ELSE IF ~user.is_active
         THEN Raised("UserInactiveError", "User account is inactive")
    ELSE NoResult

\* mutant: last_login_at is set as soon as the account is found
Login_stamps_first(p, email, password) ==
    /\ req[p].pc = "idle"
    /\ LET user == scalar_one_or_none(get_user_by_email(email))
           r == [IdleReq EXCEPT !.op = "login", !.email = email,
                                !.password = password, !.user = user]
           failed == login_checks(user, password)
       IN  IF user = None
           THEN Done(p, r, failed, login_endpoint(failed))
           ELSE LET res == IF failed # NoResult THEN failed
                           ELSE Returned(user.id, _create_tokens(str_id(user.id), now), now)
                    dirty == [id |-> user.id, last_login_at |-> now]
                IN  ToCommit(p, r, dirty, res, login_endpoint(res))
    /\ UNCHANGED <<users, usedIds, now, wallet, codec, musicVars>>

\* one await (the lookup by email); the rest of the method runs unsuspended
Login(p, email, password) ==
    /\ req[p].pc = "idle"
    /\ LET user == scalar_one_or_none(get_user_by_email(email))
           r == [IdleReq EXCEPT !.op = "login", !.email = email,
                                !.password = password, !.user = user]
           failed == login_checks(user, password)
       IN  IF failed # NoResult
           THEN Done(p, r, failed, login_endpoint(failed))
           ELSE LET res == Returned(user.id, _create_tokens(str_id(user.id), now), now)
                    dirty == [id |-> user.id, last_login_at |-> now]
                IN  ToCommit(p, r, dirty, res, login_endpoint(res))
    /\ UNCHANGED <<users, usedIds, now, wallet, codec, musicVars>>

----------------------------------------------------------------------------
(* get_db: commit when the endpoint returned *)

\* mutant: the session is closed without its commit
Commit_lost(p) ==
    /\ req[p].pc = "commit"
    /\ UNCHANGED users
    /\ Done(p, req[p], req[p].res, req[p].http)
    /\ UNCHANGED <<usedIds, now, wallet, codec, musicVars>>

\* register: the flushed row becomes visible.  login: the UPDATE of
\* last_login_at is flushed; it matches no row when the account is gone.
Commit(p) ==
    /\ req[p].pc = "commit"
    /\ LET r == req[p]
       IN  IF r.op = "register"
           THEN /\ users' = users \cup {r.row}
                /\ Done(p, r, r.res, r.http)
           ELSE IF \E u \in users : u.id = r.row.id
           THEN /\ users' = {IF u.id = r.row.id
                             THEN [u EXCEPT !.last_login_at = r.row.last_login_at]
                             ELSE u : u \in users}
                /\ Done(p, r, r.res, r.http)
           ELSE /\ UNCHANGED users
                /\ LET res == Raised("StaleDataError", "")
                   IN  Done(p, r, res, Unhandled(res))
    /\ UNCHANGED <<usedIds, now, wallet, codec, musicVars>>

----------------------------------------------------------------------------
(* AuthService.refresh_tokens, through the /refresh endpoint *)

\* mutant: refresh_tokens without the check of the token type
refresh_tokens_checks_any_type(payload) ==
    IF payload = None
    THEN Raised("InvalidTokenError", "Invalid or expired refresh token")
    ELSE IF payload.sub = <<>>
         THEN Raised("InvalidTokenError", "Invalid token payload")
    ELSE IF ~WellFormedUUID(payload.sub) THEN ValueError
    ELSE NoResult

\* the checks on the decoded payload, before the account is looked up
refresh_tokens_checks(payload) ==
    IF payload = None
    THEN Raised("InvalidTokenError", "Invalid or expired refresh token")
    ELSE IF payload.type # "refresh"
         THEN Raised("InvalidTokenError", "Invalid token type")
    ELSE IF payload.sub = <<>>
         THEN Raised("InvalidTokenError", "Invalid token payload")
    ELSE IF ~WellFormedUUID(payload.sub) THEN ValueError
    ELSE NoResult

\* mutant: refresh_tokens without the check of is_active
refresh_tokens_user_checks_no_active(user) ==
    IF user = MultipleResults THEN ManyRows
    ELSE IF user = None THEN Raised("UserNotFoundError", "User not found")
    ELSE NoResult

\* the checks on the account the subject resolves to
refresh_tokens_user_checks(user) ==
    IF user = MultipleResults THEN ManyRows
    ELSE IF user = None THEN Raised("UserNotFoundError", "User not found")
    ELSE IF ~user.is_active
         THEN Raised("UserInactiveError", "User account is inactive")
    ELSE NoResult

\* mutant: a refresh token that was exchanged once is refused afterwards
RefreshStart_once(p, token) ==
    /\ req[p].pc = "idle"
    /\ LET spent == /\ wallet # NoPair
                    /\ "exchanged" \in DOMAIN wallet
                    /\ token = wallet.pair.refresh_token
           payload == IF spent THEN None ELSE decode_token(token, now)
           r == [IdleReq EXCEPT !.op = "refresh", !.token = token, !.payload = payload]
           failed == refresh_tokens_checks(payload)
       IN  IF failed # NoResult
           THEN Done(p, r, failed, refresh_token_endpoint(failed))
           ELSE Await(p, r, "refresh_user")
    /\ UNCHANGED <<users, usedIds, now, wallet, codec, musicVars>>

\* decode_token and the payload checks, up to the await of get_user_by_id
RefreshStart(p, token) ==
    /\ req[p].pc = "idle"
    /\ LET payload == decode_token(token, now)
           r == [IdleReq EXCEPT !.op = "refresh", !.token = token, !.payload = payload]
           failed == refresh_tokens_checks(payload)
       IN  IF failed # NoResult
           THEN Done(p, r, failed, refresh_token_endpoint(failed))
           ELSE Await(p, r, "refresh_user")
    /\ UNCHANGED <<users, usedIds, now, wallet, codec, musicVars>>

\* mutant: a refresh counts as a login and stamps the account
RefreshUser_stamps(p) ==
    /\ req[p].pc = "refresh_user"
    /\ LET user == scalar_one_or_none(get_user_by_id(UUID(req[p].payload.sub)))
           r == [req[p] EXCEPT !.user = user]
           failed == refresh_tokens_user_checks(user)
           res == IF failed # NoResult THEN failed
                  ELSE Returned(NoId, _create_tokens(str_id(user.id), now), now)
       IN  /\ Done(p, r, res, refresh_token_endpoint(res))
           /\ users' = IF failed # NoResult THEN users
                       ELSE {IF u.id = user.id THEN [u EXCEPT !.last_login_at = now]
                             ELSE u : u \in users}
    /\ UNCHANGED <<usedIds, now, wallet, codec, musicVars>>

\* the lookup by id and what follows it
RefreshUser(p) ==
    /\ req[p].pc = "refresh_user"
    /\ LET user == scalar_one_or_none(get_user_by_id(UUID(req[p].payload.sub)))
           r == [req[p] EXCEPT !.user = user]
           failed == refresh_tokens_user_checks(user)
           res == IF failed # NoResult THEN failed
                  ELSE Returned(NoId, _create_tokens(str_id(user.id), now), now)
       IN  Done(p, r, res, refresh_token_endpoint(res))
    /\ UNCHANGED <<users, usedIds, now, wallet, codec, musicVars>>

----------------------------------------------------------------------------
(* AuthService.get_current_user, through the get_current_user dependency *)

get_current_user_checks(payload) ==
    IF payload = None
    THEN Raised("InvalidTokenError", "Invalid or expired access token")
    ELSE IF payload.type # "access"
         THEN Raised("InvalidTokenError", "Invalid token type")
    ELSE IF payload.sub = <<>>
         THEN Raised("InvalidTokenError", "Invalid token payload")
    ELSE IF ~WellFormedUUID(payload.sub) THEN ValueError
    ELSE NoResult

get_current_user_user_checks(user) ==
    IF user = MultipleResults THEN ManyRows
    ELSE IF user = None THEN Raised("UserNotFoundError", "User not found")
    ELSE IF ~user.is_active
         THEN Raised("UserInactiveError", "User account is inactive")
    ELSE NoResult

\* mutant: the account is looked up before the type of the token is checked
ResolveStart_lookup_first(p, token) ==
    /\ req[p].pc = "idle"
    /\ LET payload == decode_token(token, now)
           r == [IdleReq EXCEPT !.op = "resolve", !.token = token, !.payload = payload]
           missing == /\ payload # None
                      /\ payload.sub # <<>>
                      /\ get_user_by_id(UUID(payload.sub)) = {}
           failed == IF missing THEN Raised("UserNotFoundError", "User not found")
                     ELSE get_current_user_checks(payload)
       IN  IF failed # NoResult
           THEN Done(p, r, failed, deps_get_current_user(failed))
           ELSE Await(p, r, "resolve_user")
    /\ UNCHANGED <<users, usedIds, now, wallet, codec, musicVars>>

ResolveStart(p, token) ==
    /\ req[p].pc = "idle"
    /\ LET payload == decode_token(token, now)
           r == [IdleReq EXCEPT !.op = "resolve", !.token = token, !.payload = payload]
           failed == get_current_user_checks(payload)
       IN  IF failed # NoResult
           THEN Done(p, r, failed, deps_get_current_user(failed))
           ELSE Await(p, r, "resolve_user")
    /\ UNCHANGED <<users, usedIds, now, wallet, codec, musicVars>>

ResolveUser(p) ==
    /\ req[p].pc = "resolve_user"
    /\ LET user == scalar_one_or_none(get_user_by_id(UUID(req[p].payload.sub)))
           r == [req[p] EXCEPT !.user = user]
           failed == get_current_user_user_checks(user)
           res == IF failed # NoResult THEN failed
                  ELSE Returned(user.id, NoTokens, Never)
       IN  Done(p, r, res, deps_get_current_user(res))
    /\ UNCHANGED <<users, usedIds, now, wallet, codec, musicVars>>

----------------------------------------------------------------------------
(* The callers and the environment *)

\* the caller takes the response; it may keep the token pair it was given
Return(p, keep) ==
    /\ req[p].pc = "done"
    /\ req' = [req EXCEPT ![p] = IdleReq]
    /\ wallet' = IF keep /\ req[p].res.tokens # NoTokens
                 THEN [pair |-> req[p].res.tokens, at |-> req[p].res.at,
                       by |-> req[p].op]
                 ELSE wallet
    /\ UNCHANGED <<users, usedIds, now, codec, musicVars>>

\* the caller takes the answer of a successful refresh and goes on holding
\* the refresh token it presented (the answer carries no other)
ReturnExchanged(p) ==
    /\ req[p].pc = "done"
    /\ req[p].op = "refresh"
    /\ req[p].res.exc = ""
    /\ wallet # NoPair
    /\ req[p].token = wallet.pair.refresh_token
    /\ req' = [req EXCEPT ![p] = IdleReq]
    /\ wallet' = [pair |-> wallet.pair, at |-> wallet.at, by |-> wallet.by,
                  exchanged |-> TRUE]
    /\ UNCHANGED <<users, usedIds, now, codec, musicVars>>

\* a token with another signature, and a string that is no JWT
Resign(token) == [token EXCEPT !.sig = OtherKey]

Garbage == [claims |-> [sub |-> <<>>, exp |-> 0, type |-> ""], sig |-> "", intact |-> FALSE]

\* the tokens a caller can present
Presentable ==
    {Garbage} \cup
    (IF wallet = NoPair THEN {}
     ELSE {wallet.pair.access_token, wallet.pair.refresh_token,
           Resign(wallet.pair.access_token), Resign(wallet.pair.refresh_token)})

\* tokens signed with the secret whose claims are not those _create_tokens
\* writes: no subject or a subject that is no UUID, no type or either type,
\* no expiry or one not yet reached
Crafted ==
    {[claims |-> [sub |-> sub, exp |-> exp, type |-> type],
      sig |-> SECRET_KEY, intact |-> TRUE] :
        sub \in {<<>>, <<"text", 0>>} \cup {str_id(id) : id \in Ids},
        exp \in {NoExp, timegm(MaxTime) + 1},
        type \in {"", "access", "refresh"}}

Tick ==
    /\ now < MaxTime
    /\ now' = now + 1
    /\ UNCHANGED <<users, usedIds, req, wallet, codec, musicVars>>

\* account management outside the core: the active flag, and deletion
SetActive(id, active) ==
    /\ \E u \in users : u.id = id /\ u.is_active # active
    /\ users' = {IF u.id = id THEN [u EXCEPT !.is_active = active] ELSE u : u \in users}
    /\ UNCHANGED <<usedIds, now, req, wallet, codec, musicVars>>

DeleteAccount(id) ==
    /\ \E u \in users : u.id = id
    /\ users' = {u \in users : u.id # id}
    /\ UNCHANGED <<usedIds, now, req, wallet, codec, musicVars>>

\* the stored hash of an account is replaced from outside the core
StoreHash(id, hash) ==
    /\ \E u \in users : u.id = id /\ u.password_hash # hash
    /\ users' = {IF u.id = id THEN [u EXCEPT !.password_hash = hash] ELSE u : u \in users}
    /\ UNCHANGED <<usedIds, now, req, wallet, codec, musicVars>>

----------------------------------------------------------------------------
(* The token functions of app/core/security.py used directly *)

CodecIdle ==
    [stage |-> "idle", subject |-> <<>>, purpose |-> "", expires_delta |-> NoDelta,
     at |-> 0, claims |-> None, token |-> NoToken, cause |-> "", clock |-> 0,
     payload |-> None]

Purposes == {"access", "refresh"}

\* expires_delta, in ticks: absent, in the future, in the past
Deltas == {NoDelta, 1, 2 * TicksPerSec + 1, -1}

DecodeTimes == 0..(2 * MaxTime + 2)

CodecInputs ==
    {[CodecIdle EXCEPT !.stage = "input", !.subject = str_id(id), !.purpose = purpose,
                       !.expires_delta = d, !.at = t] :
        id \in Ids, purpose \in Purposes, d \in Deltas, t \in 0..MaxTime}

\* create_access_token / create_refresh_token called at clock codec.at
CodecCreate ==
    /\ codec.stage = "input"
    /\ codec' = [codec EXCEPT
          !.stage = "issued",
          !.claims = IF codec.purpose = "access"
                     THEN access_claims(codec.subject, codec.expires_delta, codec.at)
                     ELSE refresh_claims(codec.subject, codec.expires_delta, codec.at),
          !.token = IF codec.purpose = "access"
                    THEN create_access_token(codec.subject, codec.expires_delta, codec.at)
                    ELSE create_refresh_token(codec.subject, codec.expires_delta, codec.at)]
    /\ UNCHANGED <<users, usedIds, now, req, wallet, musicVars>>

\* the token is signed again with another secret, or loses its structure
CodecTamper(cause) ==
    /\ codec.stage = "issued"
    /\ codec.cause = ""
    /\ codec' = [codec EXCEPT
          !.cause = cause,
          !.token = IF cause = "secret" THEN Resign(codec.token)
                    ELSE [codec.token EXCEPT !.intact = FALSE]]
    /\ UNCHANGED <<users, usedIds, now, req, wallet, musicVars>>

\* decode_token called at clock t, not before the token was made
CodecDecode(t) ==
    /\ codec.stage = "issued"
    /\ t >= codec.at
    /\ codec' = [codec EXCEPT !.stage = "decoded", !.clock = t,
                              !.payload = decode_token(codec.token, t)]
    /\ UNCHANGED <<users, usedIds, now, req, wallet, musicVars>>

----------------------------------------------------------------------------
(* app/services/music.py: MusicService over the songs table and the storage *)

MProcs == {"m1", "m2"}

Owners == {1, 2}

SongIds == 1..MaxSongs

Titles == {"t1", "t2"}

NoPath == <<>>

NoValues == [field \in {} |-> 0]

NoWrite == [kind |-> "none", id |-> 0, values |-> NoValues]

NoUpdate == [none |-> TRUE]

\* absent values: Song.rating is null, SongUpdate.title is unset
NoRating == 0

NoTitle == ""

\* SongFilters as far as modelled: the search term ("" for none), matched
\* against the title; the pages asked for
NoFilters == [search |-> ""]

Filters == {[search |-> term] : term \in {""} \cup Titles}

Pages == {1, 2}

\* limit: int = 20, here one song to the page
PageLimit == 1

IdleCall ==
    [op |-> "none", pc |-> "idle", song_id |-> 0, owner_id |-> 0,
     update_data |-> NoUpdate, filters |-> NoFilters, page |-> 1,
     song |-> None, write |-> NoWrite, res |-> NoResult]

\* what a MusicService call handed back: an exception, or the songs returned
\* and, for get_songs, their total
MRaised(exc) == [exc |-> exc, songs |-> {}, total |-> 0]

MReturned(rows, total) == [exc |-> "", songs |-> rows, total |-> total]

\* a new Song row: rating null, play_count 0, last_played_at null
NewSong(id, owner_id, title, file_path, cover_art_path) ==
    [id |-> id, owner_id |-> owner_id, title |-> title, rating |-> NoRating,
     play_count |-> 0, last_played_at |-> Never,
     file_path |-> file_path, cover_art_path |-> cover_art_path]

\* the names storage gives to the files of the n-th upload
AudioPath(n) == <<"audio", n>>

CoverPath(n) == <<"cover", n>>

\* a SongUpdate: the fields the request set, and every field's value (the
\* default, None, for a field that was not set)
SongUpdate(fields_set, title, rating) ==
    [fields_set |-> fields_set, title |-> title, rating |-> rating]

UpdateData ==
    {SongUpdate({}, NoTitle, NoRating),
     SongUpdate({"title"}, "t2", NoRating),
     SongUpdate({"rating"}, NoTitle, 5),
     SongUpdate({"rating"}, NoTitle, NoRating),
     SongUpdate({"title", "rating"}, "t2", 5)}

\* mutant: every field of the SongUpdate is dumped, set or not
model_dump_all(update_data) ==
    [field \in {"title", "rating"} |-> update_data[field]]

\* update_data.model_dump(exclude_unset=True)
model_dump(update_data) ==
    [field \in update_data.fields_set |-> update_data[field]]

\* setattr for each item; the unit of work keeps the attributes whose value
\* differs from the loaded one
Changes(song, values) ==
    [field \in {f \in DOMAIN values : values[f] # song[f]} |-> values[field]]

\* a row with the changed columns written
Written(row, changes) ==
    [field \in DOMAIN row |->
        IF field \in DOMAIN changes THEN changes[field] ELSE row[field]]

\* mutant: the song is selected by its id alone
get_song_by_id_any_owner(song_id, owner_id) ==
    {song \in songs : song.id = song_id}

\* select(Song).where(Song.id == song_id, Song.owner_id == owner_id)
get_song_by_id(song_id, owner_id) ==
    {song \in songs : song.id = song_id /\ song.owner_id = owner_id}

\* the query of get_songs before sorting and paging
Matching(owner_id, filters) ==
    {song \in songs : /\ song.owner_id = owner_id
                      /\ filters.search # "" => song.title = filters.search}

\* order_by(created_at desc), the default sort and order, then
\* offset((page - 1) * limit) and limit(limit): the songs of the page
PageOf(rows, page, limit) ==
    {song \in rows :
        LET rank == Cardinality({other \in rows : other.id >= song.id})
        IN  rank > (page - 1) * limit /\ rank <= page * limit}

\* the method ends; the method awaits its next round trip
MDone(m, c, res) ==
    calls' = [calls EXCEPT ![m] = [c EXCEPT !.pc = "done", !.write = NoWrite, !.res = res]]

MAwait(m, c, pc) == calls' = [calls EXCEPT ![m] = [c EXCEPT !.pc = pc]]

SongNotFound == MRaised("SongNotFoundError")

\* the call under way in slot m, as it starts
Call(m, op, song_id, owner_id) ==
    [calls[m] EXCEPT !.op = op, !.song_id = song_id, !.owner_id = owner_id]

\* MusicService.get_song_by_id called on its own
GetSong(m, song_id, owner_id) ==
    /\ calls[m].pc = "idle"
    /\ LET found == get_song_by_id(song_id, owner_id)
       IN  MDone(m, Call(m, "get_song_by_id", song_id, owner_id),
                 MReturned(found, Cardinality(found)))
    /\ UNCHANGED <<songs, files, usedSongs, authVars>>

\* MusicService.get_songs up to the answer of the count query
GetSongsCount(m, owner_id, filters, page) ==
    /\ calls[m].pc = "idle"
    /\ LET c == [Call(m, "get_songs", 0, owner_id) EXCEPT
                    !.filters = filters, !.page = page,
                    !.res = MReturned({}, Cardinality(Matching(owner_id, filters)))]
       IN  MAwait(m, c, "list_page")
    /\ UNCHANGED <<songs, files, usedSongs, authVars>>

\* MusicService.get_songs from the answer of the page query
GetSongsPage(m) ==
    /\ calls[m].pc = "list_page"
    /\ LET c == calls[m]
       IN  MDone(m, c, MReturned(PageOf(Matching(c.owner_id, c.filters), c.page, PageLimit),
                                 c.res.total))
    /\ UNCHANGED <<songs, files, usedSongs, authVars>>

\* MusicService.update_song up to its flush
UpdateStart(m, song_id, owner_id, update_data) ==
    /\ calls[m].pc = "idle"
    /\ LET c == [Call(m, "update_song", song_id, owner_id) EXCEPT !.update_data = update_data]
           found == get_song_by_id(song_id, owner_id)
       IN  IF found = {}
           THEN MDone(m, c, SongNotFound)
           ELSE LET song == CHOOSE row \in found : TRUE
                IN  MAwait(m, [c EXCEPT !.song = song,
                                        !.write = [kind |-> "update", id |-> song.id,
                                                   values |-> Changes(song, model_dump(update_data))]],
                           "flush")
    /\ UNCHANGED <<songs, files, usedSongs, authVars>>

\* MusicService.increment_play_count up to its flush
IncrementStart(m, song_id, owner_id) ==
    /\ calls[m].pc = "idle"
    /\ \A song \in songs : song.id = song_id => song.play_count < MaxPlays
    /\ LET c == Call(m, "increment_play_count", song_id, owner_id)
           found == get_song_by_id(song_id, owner_id)
       IN  IF found = {}
           THEN MDone(m, c, SongNotFound)
           ELSE LET song == CHOOSE row \in found : TRUE
                    values == [play_count |-> song.play_count + 1, last_played_at |-> now]
                IN  MAwait(m, [c EXCEPT !.song = song,
                                        !.write = [kind |-> "update", id |-> song.id,
                                                   values |-> Changes(song, values)]],
                           "flush")
    /\ UNCHANGED <<songs, files, usedSongs, authVars>>

\* MusicService.delete_song up to the deletion of the audio file
DeleteStart(m, song_id, owner_id) ==
    /\ calls[m].pc = "idle"
    /\ LET c == Call(m, "delete_song", song_id, owner_id)
           found == get_song_by_id(song_id, owner_id)
       IN  IF found = {}
           THEN MDone(m, c, SongNotFound)
           ELSE MAwait(m, [c EXCEPT !.song = CHOOSE row \in found : TRUE], "delete_file")
    /\ UNCHANGED <<songs, files, usedSongs, authVars>>

\* await self.storage.delete_file(song.file_path)
DeleteFile(m) ==
    /\ calls[m].pc = "delete_file"
    /\ files' = files \ {calls[m].song.file_path}
    /\ LET c == calls[m]
       IN  IF c.song.cover_art_path # NoPath
           THEN MAwait(m, c, "delete_cover")
           ELSE MAwait(m, [c EXCEPT !.write = [kind |-> "delete", id |-> c.song.id,
                                              values |-> NoValues]], "flush")
    /\ UNCHANGED <<songs, usedSongs, authVars>>

\* await self.storage.delete_file(song.cover_art_path), then db.delete(song)
DeleteCover(m) ==
    /\ calls[m].pc = "delete_cover"
    /\ files' = files \ {calls[m].song.cover_art_path}
    /\ LET c == calls[m]
       IN  MAwait(m, [c EXCEPT !.write = [kind |-> "delete", id |-> c.song.id,
                                          values |-> NoValues]], "flush")
    /\ UNCHANGED <<songs, usedSongs, authVars>>

\* MusicService.upload_song up to the end of save_audio_file, which stores
\* the file or fails
UploadSave(m, owner_id, title, cover, ok) ==
    /\ calls[m].pc = "idle"
    /\ usedSongs < MaxSongs
    /\ LET id == usedSongs + 1
           c == Call(m, "upload_song", id, owner_id)
           song == NewSong(id, owner_id, title, AudioPath(id), NoPath)
       IN  IF ~ok
           THEN /\ MDone(m, c, MRaised("UploadError"))
                /\ UNCHANGED <<files, usedSongs>>
           ELSE /\ files' = files \cup {AudioPath(id)}
                /\ usedSongs' = id
                /\ IF cover
                   THEN MAwait(m, [c EXCEPT !.song = song], "save_cover")
                   ELSE MAwait(m, [c EXCEPT !.song = song,
                                            !.write = [kind |-> "insert", id |-> id,
                                                       values |-> song]], "flush")
    /\ UNCHANGED <<songs, authVars>>

\* await self.storage.save_cover_art(...), then Song(...) and db.add(song)
UploadCover(m) ==
    /\ calls[m].pc = "save_cover"
    /\ LET c == calls[m]
           song == [c.song EXCEPT !.cover_art_path = CoverPath(c.song.id)]
       IN  /\ files' = files \cup {song.cover_art_path}
           /\ MAwait(m, [c EXCEPT !.song = song,
                                  !.write = [kind |-> "insert", id |-> song.id,
                                             values |-> song]], "flush")
    /\ UNCHANGED <<songs, usedSongs, authVars>>

\* calls that have flushed a change of the row and not yet committed it
Locking(id) ==
    {m \in MProcs : calls[m].pc = "commit" /\ calls[m].write.id = id}

\* await self.db.flush(): the statement reaches the database, or fails (and
\* upload_song turns every failure into UploadError); an UPDATE or DELETE
\* waits for the row while another transaction holds it, and an UPDATE that
\* matches no row raises StaleDataError
MFlush(m, ok) ==
    /\ calls[m].pc = "flush"
    /\ Locking(calls[m].write.id) = {}
    /\ LET c == calls[m]
           stale == /\ c.write.kind = "update"
                    /\ DOMAIN c.write.values # {}
                    /\ \A row \in songs : row.id # c.write.id
       IN  IF c.op = "upload_song" /\ ~ok THEN MDone(m, c, MRaised("UploadError"))
           ELSE IF ~ok THEN MDone(m, c, MRaised("DBAPIError"))
           ELSE IF stale THEN MDone(m, c, MRaised("StaleDataError"))
           ELSE MAwait(m, c, "commit")
    /\ UNCHANGED <<songs, files, usedSongs, authVars>>

\* the request ends and its transaction commits: the flushed statement
\* takes effect on the table
MCommit(m) ==
    /\ calls[m].pc = "commit"
    /\ LET write == calls[m].write
       IN  /\ songs' = CASE write.kind = "insert" -> songs \cup {write.values}
                         [] write.kind = "update" ->
                                {IF row.id = write.id THEN Written(row, write.values) ELSE row :
                                    row \in songs}
                         [] write.kind = "delete" -> {row \in songs : row.id # write.id}
           /\ MDone(m, calls[m],
                    IF write.kind = "delete" THEN MReturned({}, 0)
                    ELSE MReturned({row \in songs' : row.id = write.id}, 1))
    /\ UNCHANGED <<files, usedSongs, authVars>>

\* the answer is sent and the slot serves the next call
MReturn(m) ==
    /\ calls[m].pc = "done"
    /\ calls' = [calls EXCEPT ![m] = IdleCall]
    /\ UNCHANGED <<songs, files, usedSongs, authVars>>

\* the calls of MusicService that read
Reads(M) ==
    \/ \E m \in M, id \in SongIds, o \in Owners : GetSong(m, id, o)
    \/ \E m \in M, o \in Owners, f \in Filters, page \in Pages : GetSongsCount(m, o, f, page)
    \/ \E m \in M : GetSongsPage(m)

----------------------------------------------------------------------------
Init ==
    /\ users = {}
    /\ usedIds = 0
    /\ now = 0
    /\ req = [p \in Procs |-> IdleReq]
    /\ wallet = NoPair
    /\ codec = CodecIdle
    /\ songs = {}
    /\ files = {}
    /\ usedSongs = 0
    /\ calls = [m \in MProcs |-> IdleCall]

\* the handlers of the request slots P
Register(P) ==
    \/ \E p \in P, e \in Emails, u \in Usernames, pw \in Passwords :
          RegisterStart(p, e, u, pw)
    \/ \E p \in P : RegisterUsername(p)
    \/ \E p \in P, salt \in Salts : RegisterFlush(p, salt)

LoginCommit(P) ==
    \/ \E p \in P, e \in Emails, pw \in Passwords : Login(p, e, pw)
    \/ \E p \in P : Commit(p)

RefreshResolve(P) ==
    \/ \E p \in P, t \in Presentable : RefreshStart(p, t)
    \/ \E p \in P : RefreshUser(p)
    \/ \E p \in P, t \in Presentable : ResolveStart(p, t)
    \/ \E p \in P : ResolveUser(p)

Manage ==
    \/ \E id \in Ids, a \in BOOLEAN : SetActive(id, a)
    \/ \E id \in Ids : DeleteAccount(id)

\* Requests served one at a time, with account management between any two
\* steps; the clock stands still.
Next ==
    \/ Register({"r1"})
    \/ LoginCommit({"r1"})
    \/ RefreshResolve({"r1"})
    \/ \E keep \in BOOLEAN : Return("r1", keep)
    \/ Manage

Spec == Init /\ [][Next]_vars

\* Two requests whose steps interleave at their awaits: registrations and
\* logins racing for the same rows; the clock stands still and no account
\* is managed from outside.
NextRace ==
    \/ Register(Procs)
    \/ LoginCommit(Procs)
    \/ \E p \in Procs : Return(p, FALSE)

SpecRace == Init /\ [][NextRace]_vars

\* One account over time: requests served one at a time while the clock runs.
NextClock ==
    \/ (usedIds = 0 /\ Register({"r1"}))
    \/ LoginCommit({"r1"})
    \/ RefreshResolve({"r1"})
    \/ \E keep \in BOOLEAN : Return("r1", keep)
    \/ Tick

SpecClock == Init /\ [][NextClock]_vars

\* Requests served one at a time, with account management, presenting also
\* the signed tokens of Crafted; the clock stands still.
CraftedCalls(P) ==
    \/ \E p \in P, t \in Crafted : RefreshStart(p, t)
    \/ \E p \in P, t \in Crafted : ResolveStart(p, t)

NextCrafted ==
    \/ Register({"r1"})
    \/ LoginCommit({"r1"})
    \/ RefreshResolve({"r1"})
    \/ CraftedCalls({"r1"})
    \/ \E keep \in BOOLEAN : Return("r1", keep)
    \/ Manage

SpecCrafted == Init /\ [][NextCrafted]_vars

\* Registrations and logins served one at a time over a table whose stored
\* hashes can be replaced by hashes the core did not make.
NextStored ==
    \/ Register({"r1"})
    \/ LoginCommit({"r1"})
    \/ \E keep \in BOOLEAN : Return("r1", keep)
    \/ \E id \in Ids, hash \in BadHashes : StoreHash(id, hash)

SpecStored == Init /\ [][NextStored]_vars

\* Two requests on one event loop, with the computation of the password
\* hash as a span of time: a handler steps only when the loop is not held.
NextLoop ==
    \/ /\ OnLoop = {}
       /\ \/ \E p \in Procs, e \in Emails, u \in Usernames, pw \in Passwords :
                RegisterStart(p, e, u, pw)
          \/ \E p \in Procs : RegisterUsername(p)
          \/ LoginCommit(Procs)
          \/ \E p \in Procs : Return(p, FALSE)
    \/ \E p \in Procs : HashStart(p)
    \/ \E p \in Procs, salt \in Salts : HashEnd(p, salt)

SpecLoop == Init /\ [][NextLoop]_vars

\* One account over time, with account management, and a caller that
\* presents the same refresh token again after it was exchanged.
NextReuse ==
    \/ (usedIds = 0 /\ Register({"r1"}))
    \/ LoginCommit({"r1"})
    \/ RefreshResolve({"r1"})
    \/ \E keep \in BOOLEAN : Return("r1", keep)
    \/ ReturnExchanged("r1")
    \/ Tick
    \/ Manage

SpecReuse == Init /\ [][NextReuse]_vars

\* The library of two owners, its calls served one at a time: songs without
\* cover art are uploaded, read, listed, renamed, played and deleted.
NextLibrary ==
    \/ \E o \in Owners, ok \in BOOLEAN : UploadSave("m1", o, "t1", FALSE, ok)
    \/ Reads({"m1"})
    \/ \E id \in SongIds, o \in Owners :
            UpdateStart("m1", id, o, SongUpdate({"title"}, "t2", NoRating))
    \/ \E id \in SongIds, o \in Owners : IncrementStart("m1", id, o)
    \/ \E id \in SongIds, o \in Owners : DeleteStart("m1", id, o)
    \/ DeleteFile("m1")
    \/ \E ok \in BOOLEAN : MFlush("m1", ok)
    \/ MCommit("m1")
    \/ MReturn("m1")

SpecLibrary == Init /\ [][NextLibrary]_vars

\* The songs of two owners edited, one call at a time, with every SongUpdate
\* of UpdateData.
NextEdits ==
    \/ \E o \in Owners, ok \in BOOLEAN : UploadSave("m1", o, "t1", FALSE, ok)
    \/ \E id \in SongIds, o \in Owners, u \in UpdateData : UpdateStart("m1", id, o, u)
    \/ \E ok \in BOOLEAN : MFlush("m1", ok)
    \/ MCommit("m1")
    \/ MReturn("m1")

SpecEdits == Init /\ [][NextEdits]_vars

\* One owner's songs played by two requests whose steps interleave at their
\* awaits.
NextPlays ==
    \/ \E m \in MProcs, ok \in BOOLEAN : UploadSave(m, 1, "t1", FALSE, ok)
    \/ \E m \in MProcs, id \in SongIds : IncrementStart(m, id, 1)
    \/ \E m \in MProcs, ok \in BOOLEAN : MFlush(m, ok)
    \/ \E m \in MProcs : MCommit(m)
    \/ \E m \in MProcs : MReturn(m)

SpecPlays == Init /\ [][NextPlays]_vars

\* One owner's songs, with and without cover art, uploaded and deleted by
\* two requests whose steps interleave at their awaits.
NextFiles ==
    \/ \E m \in MProcs, cover \in BOOLEAN, ok \in BOOLEAN : UploadSave(m, 1, "t1", cover, ok)
    \/ \E m \in MProcs : UploadCover(m)
    \/ \E m \in MProcs, id \in SongIds : DeleteStart(m, id, 1)
    \/ \E m \in MProcs : DeleteFile(m)
    \/ \E m \in MProcs : DeleteCover(m)
    \/ \E m \in MProcs, ok \in BOOLEAN : MFlush(m, ok)
    \/ \E m \in MProcs : MCommit(m)
    \/ \E m \in MProcs : MReturn(m)

SpecFiles == Init /\ [][NextFiles]_vars

\* The token functions alone, on every input of CodecInputs.
InitCodec ==
    /\ users = {}
    /\ usedIds = 0
    /\ now = 0
    /\ req = [p \in Procs |-> IdleReq]
    /\ wallet = NoPair
    /\ codec \in CodecInputs
    /\ songs = {}
    /\ files = {}
    /\ usedSongs = 0
    /\ calls = [m \in MProcs |-> IdleCall]

NextCodec ==
    \/ CodecCreate
    \/ \E cause \in {"secret", "corrupt"} : CodecTamper(cause)
    \/ \E t \in DecodeTimes : CodecDecode(t)

SpecCodec == InitCodec /\ [][NextCodec]_vars

----------------------------------------------------------------------------
(* Shorthands of the claims *)

Finished(p, op) == req[p].op = op /\ req[p].pc = "done"

\* the account a presented token names, as the table holds it now
Account(id) == {u \in users : u.id = id}

\* signed with SECRET_KEY and structurally whole
Genuine(token) == token.intact /\ token.sig = SECRET_KEY

----------------------------------------------------------------------------
(* C1: a token issued as an access token is always rejected by refresh with *)
(* InvalidTokenError, and a token issued as a refresh token is always       *)
(* rejected by get_current_user with InvalidTokenError, also when it is     *)
(* genuine, unexpired and its account exists and is active; no tokens and   *)
(* no user are handed out.                                                  *)
C1_PurposeSeparation ==
    \A p \in Procs :
        /\ (req[p].op = "refresh" /\ req[p].token.claims.type = "access")
              => /\ req[p].pc = "done"
                 /\ req[p].res.exc = "InvalidTokenError"
                 /\ req[p].res.tokens = NoTokens
                 /\ req[p].http.status = 401
        /\ (req[p].op = "resolve" /\ req[p].token.claims.type = "refresh")
              => /\ req[p].pc = "done"
                 /\ req[p].res.exc = "InvalidTokenError"
                 /\ req[p].res.user = NoId
                 /\ req[p].http.status = 401

\* an issued access token, decoded successfully, of an active account, was
\* presented to refresh and rejected for its type
C1_Witness ==
    \E p \in Procs :
        /\ Finished(p, "refresh")
        /\ wallet # NoPair
        /\ req[p].token = wallet.pair.access_token
        /\ req[p].payload # None
        /\ \E u \in Account(UUID(req[p].payload.sub)) : u.is_active
        /\ req[p].res = Raised("InvalidTokenError", "Invalid token type")

----------------------------------------------------------------------------
(* C2: the account is read again at every use of a token: the step of       *)
(* refresh_tokens or get_current_user that looks the subject up succeeds    *)
(* only if the users table holds that account as active at that moment,     *)
(* reports UserInactiveError (and hands out no tokens) if the table holds   *)
(* it as inactive, and UserNotFoundError if the table does not hold it; a   *)
(* call that ends before the lookup never succeeds.                         *)
C2_AccountRecheckedAtUse ==
    [][\A p \in Procs :
        /\ (req[p].pc \in {"refresh_user", "resolve_user"} /\ req'[p].pc = "done")
              => LET acct == Account(UUID(req[p].payload.sub))
                 IN  /\ req'[p].res.exc = "" => \E u \in acct : u.is_active
                     /\ (\E u \in acct : ~u.is_active)
                           => req'[p].res = Raised("UserInactiveError",
                                                   "User account is inactive")
                     /\ acct = {} => req'[p].res.exc = "UserNotFoundError"
        /\ (req[p].pc = "idle" /\ req'[p].pc = "done"
            /\ req'[p].op \in {"refresh", "resolve"})
              => req'[p].res.exc # ""
    ]_vars

\* the refresh token of the kept pair, still decodable, was presented after
\* its account had been marked inactive
C2_Witness ==
    \E p \in Procs :
        /\ Finished(p, "refresh")
        /\ wallet # NoPair
        /\ req[p].token = wallet.pair.refresh_token
        /\ req[p].payload # None
        /\ req[p].user # None /\ ~req[p].user.is_active
        /\ req[p].res = Raised("UserInactiveError", "User account is inactive")
        /\ req[p].res.tokens = NoTokens

----------------------------------------------------------------------------
(* C3: a login whose email belongs to no account and a login whose email    *)
(* belongs to an account with another password end alike: the same          *)
(* InvalidCredentialsError with the same message, and the same HTTP         *)
(* response (401, INVALID_CREDENTIALS, that message).                       *)

\* the hash was computed from another password
WrongPassword(password, hash) == hash.digest[2] # password

UnknownEmail(p) == Finished(p, "login") /\ req[p].user = None

KnownEmailWrongPassword(p) ==
    /\ Finished(p, "login")
    /\ req[p].user # None
    /\ req[p].user.email = req[p].email
    /\ WrongPassword(req[p].password, req[p].user.password_hash)

C3_LoginNonEnumeration ==
    \A p, q \in Procs :
        (UnknownEmail(p) /\ KnownEmailWrongPassword(q))
           => /\ req[p].res = req[q].res
              /\ req[p].http = req[q].http
              /\ req[p].res.exc = "InvalidCredentialsError"
              /\ req[p].http.status = 401

C3_Witness ==
    \E p, q \in Procs :
        /\ UnknownEmail(p)
        /\ KnownEmailWrongPassword(q)
        /\ req[p].password = req[q].password
        /\ req[p].http = HttpError(401, "INVALID_CREDENTIALS", "Invalid email or password")

----------------------------------------------------------------------------
(* C4: login looks at the active flag only after the password verified: on  *)
(* an inactive account a wrong password gives InvalidCredentialsError, the  *)
(* right password gives UserInactiveError, and neither gives tokens.        *)
C4_ActiveCheckedAfterPassword ==
    \A p \in Procs :
        (Finished(p, "login") /\ req[p].user # None /\ ~req[p].user.is_active)
           => /\ req[p].res.tokens = NoTokens
              /\ IF WrongPassword(req[p].password, req[p].user.password_hash)
                 THEN req[p].res = Raised("InvalidCredentialsError",
                                          "Invalid email or password")
                 ELSE /\ req[p].res = Raised("UserInactiveError",
                                             "User account is inactive")
                      /\ req[p].http.status = 403

C4_Witness ==
    \E p \in Procs :
        /\ Finished(p, "login")
        /\ req[p].user # None /\ ~req[p].user.is_active
        /\ WrongPassword(req[p].password, req[p].user.password_hash)
        /\ req[p].res.exc = "InvalidCredentialsError"

----------------------------------------------------------------------------
(* C5: a register call that finds neither its email nor its username in     *)
(* the table succeeds and leaves an active account with that email,         *)
(* username and a hash of that password (it fails only with                 *)
(* UserAlreadyExistsError, and only when one of the two is taken); a login  *)
(* with the email and password of an active account succeeds for that       *)
(* account; and an unexpired genuine access token resolves to the account   *)
(* whose id is its subject, which is the id register and login returned.    *)
C5_RegisterLoginResolve ==
    [][\A p \in Procs :
        /\ (req'[p].op = "register" /\ req[p].pc # "done" /\ req'[p].pc = "done")
              => IF req'[p].res.exc = ""
                 THEN LET user == req'[p].user
                      IN  /\ user \in users'
                          /\ user.is_active
                          /\ user.email = req'[p].email
                          /\ user.username = req'[p].username
                          /\ ~WrongPassword(req'[p].password, user.password_hash)
                          /\ req'[p].res.user = user.id
                          /\ req'[p].res.tokens.access_token.claims.sub = str_id(user.id)
                 ELSE /\ req'[p].res.exc = "UserAlreadyExistsError"
                      /\ \E u \in users : \/ u.email = req'[p].email
                                          \/ u.username = req'[p].username
        /\ (req[p].pc = "idle" /\ req'[p].op = "login")
              => \A u \in users :
                    (/\ u.email = req'[p].email
                     /\ ~WrongPassword(req'[p].password, u.password_hash)
                     /\ u.is_active)
                       => /\ req'[p].pc = "commit"
                          /\ req'[p].res.exc = ""
                          /\ req'[p].res.user = u.id
                          /\ req'[p].res.tokens.access_token.claims.sub = str_id(u.id)
                          /\ req'[p].res.tokens.access_token.claims.type = "access"
                          /\ req'[p].http.status = 200
        /\ (req[p].pc = "commit" /\ req[p].op = "login" /\ req'[p].pc = "done"
            /\ Account(req[p].row.id) # {})
              => req'[p].res = req[p].res
        /\ (req[p].pc = "idle" /\ req'[p].op = "resolve"
            /\ Genuine(req'[p].token) /\ req'[p].token.claims.type = "access"
            /\ req'[p].token.claims.exp >= now \div TicksPerSec)
              => /\ req'[p].pc = "resolve_user"
                 /\ req'[p].payload.sub = req'[p].token.claims.sub
        /\ (req[p].pc = "resolve_user" /\ req'[p].pc = "done")
              => \A u \in Account(UUID(req[p].token.claims.sub)) :
                    u.is_active => /\ req'[p].res.exc = ""
                                   /\ req'[p].res.user = u.id
                                   /\ req'[p].http.status = 200
    ]_vars

\* the access token a login returned was resolved to the account that logged in
C5_Witness ==
    \E p \in Procs :
        /\ Finished(p, "resolve")
        /\ wallet # NoPair /\ wallet.by = "login"
        /\ req[p].token = wallet.pair.access_token
        /\ req[p].res.exc = ""
        /\ req[p].res.user = UUID(wallet.pair.access_token.claims.sub)
        /\ \E u \in users : u.id = req[p].res.user /\ u.last_login_at # Never

----------------------------------------------------------------------------
(* C7: register raises UserAlreadyExistsError when its lookup finds an      *)
(* account with the email, and when its lookup finds one with the username; *)
(* both lookups come before the row is added, so a register call that ends  *)
(* in that error has added no row, taken no id, changed no account and      *)
(* returned no tokens (HTTP 400).                                           *)

Conflict(r, msg) ==
    /\ r.pc = "done"
    /\ r.res = Raised("UserAlreadyExistsError", msg)
    /\ r.res.tokens = NoTokens
    /\ r.row = NoRow
    /\ r.http = HttpError(400, "VALIDATION_ERROR", msg)

C7_RegisterConflict ==
    [][\A p \in Procs :
        /\ (req[p].pc = "idle" /\ req'[p].op = "register"
            /\ \E u \in users : u.email = req'[p].email)
              => Conflict(req'[p], "User with this email already exists")
        /\ (req[p].pc = "reg_username" /\ req'[p].pc # "reg_username"
            /\ \E u \in users : u.username = req[p].username)
              => Conflict(req'[p], "User with this username already exists")
        /\ (req[p].pc # "done" /\ req'[p].pc = "done"
            /\ req'[p].res.exc = "UserAlreadyExistsError")
              => /\ users' = users
                 /\ usedIds' = usedIds
                 /\ req[p].row = NoRow
                 /\ req[p].pc \in {"idle", "reg_username"}
        /\ (req[p].pc = "reg_flush" /\ req'[p].pc = "commit")
              => /\ req[p].user = None
                 /\ req'[p].row.email = req[p].email
                 /\ req'[p].row.username = req[p].username
    ]_vars

\* the email is free and the username is taken: the second lookup rejects
C7_Witness ==
    \E p \in Procs :
        /\ Finished(p, "register")
        /\ req[p].res = Raised("UserAlreadyExistsError",
                               "User with this username already exists")
        /\ req[p].user.username = req[p].username
        /\ req[p].user.email # req[p].email
        /\ \A u \in users : u.email # req[p].email

----------------------------------------------------------------------------
(* C8: in every reachable state, with registrations interleaving at their   *)
(* awaits, no two rows of the users table (committed, or flushed and not    *)
(* yet committed) share an email, a username or an id.                      *)

Flushed == {req[p].row : p \in {q \in Procs : req[q].op = "register" /\ req[q].pc = "commit"}}

C8_Uniqueness ==
    \A u, v \in users \cup Flushed :
        u # v => /\ u.email # v.email
                 /\ u.username # v.username
                 /\ u.id # v.id

\* two registrations of one email both passed their lookups; one of them
\* holds the row, the other was stopped at its INSERT
C8_Witness ==
    \E p, q \in Procs :
        /\ p # q
        /\ Finished(p, "register") /\ req[p].res.exc = ""
        /\ Finished(q, "register") /\ req[q].res.exc = "IntegrityError"
        /\ req[p].email = req[q].email
        /\ Cardinality({u \in users : u.email = req[p].email}) = 1

----------------------------------------------------------------------------
(* C6: the access token of the pair the caller holds, issued at wallet.at,  *)
(* is accepted by get_current_user exactly while the whole second of the    *)
(* clock is not after the whole second of wallet.at + access TTL (so at     *)
(* every clock before wallet.at + access TTL), and is rejected with the     *)
(* InvalidTokenError of an expired token from the next whole second on; an  *)
(* accepted token resolves to the account of its subject; the refresh token *)
(* of the same pair, presented before wallet.at + refresh TTL, is accepted  *)
(* by refresh_tokens, also when the access token has expired, and yields a  *)
(* pair made at the current clock whose access token carries the same       *)
(* subject.                                                                 *)

AccessTTL == ACCESS_TOKEN_EXPIRE_MINUTES * SecondsPerMinute * TicksPerSec

RefreshTTL == REFRESH_TOKEN_EXPIRE_DAYS * SecondsPerDay * TicksPerSec

Presents(p, op, token) ==
    /\ req[p].pc = "idle"
    /\ req'[p].op = op
    /\ wallet # NoPair
    /\ req'[p].token = token

ExpiredAccess(r) ==
    /\ r.pc = "done"
    /\ r.res = Raised("InvalidTokenError", "Invalid or expired access token")
    /\ r.http.status = 401

C6_ExpiryOverTime ==
    [][\A p \in Procs :
        /\ Presents(p, "resolve", wallet.pair.access_token)
              => /\ now < wallet.at + AccessTTL => req'[p].pc = "resolve_user"
                 /\ timegm(now) <= timegm(wallet.at + AccessTTL)
                       => req'[p].pc = "resolve_user"
                 /\ timegm(now) > timegm(wallet.at + AccessTTL)
                       => ExpiredAccess(req'[p])
        /\ (req[p].pc = "resolve_user" /\ req'[p].pc = "done")
              => /\ req'[p].res.exc = ""
                 /\ req'[p].res.user = UUID(req[p].token.claims.sub)
                 /\ Account(req'[p].res.user) # {}
                 /\ req'[p].http.status = 200
        /\ (Presents(p, "refresh", wallet.pair.refresh_token)
            /\ now < wallet.at + RefreshTTL)
              => req'[p].pc = "refresh_user"
        /\ (req[p].pc = "refresh_user" /\ req'[p].pc = "done"
            /\ req[p].token = wallet.pair.refresh_token)
              => /\ req'[p].res.exc = ""
                 /\ req'[p].res.at = now
                 /\ Genuine(req'[p].res.tokens.access_token)
                 /\ req'[p].res.tokens.access_token.claims =
                       [sub |-> wallet.pair.access_token.claims.sub,
                        exp |-> timegm(now + AccessTTL),
                        type |-> "access"]
                 /\ req'[p].http.status = 200
    ]_vars

\* what the claim says of the access token after wallet.at + access TTL
C6_Original ==
    [][\A p \in Procs :
        (Presents(p, "resolve", wallet.pair.access_token)
         /\ now > wallet.at + AccessTTL)
            => ExpiredAccess(req'[p])
    ]_vars

\* the pair's access token has expired, its refresh token has not, and
\* refresh_tokens has made a new pair from it
C6_Witness ==
    \E p \in Procs :
        /\ Finished(p, "refresh")
        /\ wallet # NoPair
        /\ req[p].token = wallet.pair.refresh_token
        /\ decode_token(wallet.pair.access_token, now) = None
        /\ now < wallet.at + RefreshTTL
        /\ req[p].res.exc = ""
        /\ decode_token(req[p].res.tokens.access_token, now) # None

----------------------------------------------------------------------------
(* C9: a token that is structurally corrupted, or signed with another       *)
(* secret, or expired decodes to the one value None, and every other token  *)
(* decodes to its claims; refresh_tokens and get_current_user answer None   *)
(* with the single InvalidTokenError of the operation (HTTP 401), whatever  *)
(* the cause, without looking up any account.                               *)

Corrupted(token) == ~token.intact

OtherSecret(token) == token.intact /\ token.sig # SECRET_KEY

Expired(token) == Genuine(token) /\ token.claims.exp < timegm(now)

InvalidMessage(op) ==
    IF op = "refresh" THEN "Invalid or expired refresh token"
    ELSE "Invalid or expired access token"

C9_UniformInvalid ==
    [][\A p \in Procs :
        (req[p].pc = "idle" /\ req'[p].op \in {"refresh", "resolve"})
           => LET token == req'[p].token
              IN  IF Corrupted(token) \/ OtherSecret(token) \/ Expired(token)
                  THEN /\ req'[p].payload = None
                       /\ req'[p].pc = "done"
                       /\ req'[p].res = Raised("InvalidTokenError",
                                               InvalidMessage(req'[p].op))
                       /\ req'[p].http.status = 401
                       /\ req'[p].user = IdleReq.user
                  ELSE req'[p].payload = token.claims
    ]_vars

\* the caller's own access token, expired, is answered as a corrupted one is
C9_Witness ==
    \E p \in Procs :
        /\ Finished(p, "resolve")
        /\ wallet # NoPair
        /\ req[p].token = wallet.pair.access_token
        /\ Expired(req[p].token)
        /\ req[p].payload = decode_token(Garbage, now)
        /\ req[p].payload = decode_token(Resign(req[p].token), 0)
        /\ req[p].res = Raised("InvalidTokenError", InvalidMessage("resolve"))

----------------------------------------------------------------------------
(* C10: a token made by create_access_token / create_refresh_token with an  *)
(* expiry after the clock of its making, neither re-signed nor corrupted    *)
(* and decoded before that expiry, decodes to claims with the same subject, *)
(* the same purpose, and the expiry cut down to its whole second.           *)

RoundTrip ==
    /\ codec.stage = "decoded"
    /\ codec.cause = ""
    /\ codec.claims.exp > codec.at
    /\ codec.clock < codec.claims.exp

C10_RoundTrip ==
    RoundTrip =>
        /\ codec.payload # None
        /\ codec.payload.sub = codec.subject
        /\ codec.payload.type = codec.purpose
        /\ codec.payload.exp = codec.claims.exp \div TicksPerSec
        /\ codec.payload.exp * TicksPerSec <= codec.claims.exp
        /\ codec.claims.exp < (codec.payload.exp + 1) * TicksPerSec

\* what the claim says: the decoded expiry is the instant that was encoded
C10_Original ==
    RoundTrip =>
        /\ codec.payload # None
        /\ codec.payload.exp * TicksPerSec = codec.claims.exp

\* an expiry that does not fall on a whole second, decoded in its last second
C10_Witness ==
    /\ RoundTrip
    /\ codec.claims.exp % TicksPerSec # 0
    /\ codec.clock \div TicksPerSec = codec.claims.exp \div TicksPerSec
    /\ codec.payload # None
    /\ codec.purpose = "refresh"

----------------------------------------------------------------------------
(* What holds of a successful refresh instead of C11:                       *)
(* a successful refresh_tokens makes a pair at the current clock whose      *)
(* access token and refresh token are both signed with the secret and carry *)
(* the subject of the presented token; the refresh token made is the        *)
(* presented one over again exactly when both expire in the same whole      *)
(* second; and the refresh endpoint hands the caller the access token and   *)
(* expires_in of that pair, not its refresh token.                          *)

RefreshSucceeds(p) ==
    /\ req[p].pc = "refresh_user"
    /\ req'[p].pc = "done"
    /\ req'[p].res.exc = ""

C11_RefreshIssuesPair ==
    [][\A p \in Procs :
        RefreshSucceeds(p) =>
            LET presented == req[p].token
                pair == req'[p].res.tokens
            IN  /\ Genuine(pair.access_token)
                /\ pair.access_token.claims =
                      [sub |-> presented.claims.sub,
                       exp |-> timegm(now + AccessTTL), type |-> "access"]
                /\ Genuine(pair.refresh_token)
                /\ pair.refresh_token.claims =
                      [sub |-> presented.claims.sub,
                       exp |-> timegm(now + RefreshTTL), type |-> "refresh"]
                /\ pair.access_token # presented
                /\ (pair.refresh_token = presented)
                      <=> (presented.claims.exp = timegm(now + RefreshTTL))
                /\ req'[p].http.status = 200
                /\ req'[p].http.tokens =
                      [access_token |-> pair.access_token,
                       expires_in |-> pair.expires_in]
    ]_vars

\* C11 as stated: a successful refresh gives the caller a pair with both
\* tokens, and the refresh token in it is not the one presented
C11_Original ==
    [][\A p \in Procs :
        RefreshSucceeds(p) =>
            /\ DOMAIN req'[p].http.tokens =
                  {"access_token", "refresh_token", "expires_in"}
            /\ req'[p].res.tokens.refresh_token # req[p].token
    ]_vars

\* the caller's refresh token, presented in a later second than it was made
C11_Witness ==
    \E p \in Procs :
        /\ Finished(p, "refresh")
        /\ req[p].res.exc = ""
        /\ wallet # NoPair
        /\ req[p].token = wallet.pair.refresh_token
        /\ req[p].res.tokens.refresh_token # req[p].token
        /\ req[p].res.tokens.refresh_token.claims.sub = req[p].token.claims.sub
        /\ DOMAIN req[p].http.tokens = {"access_token", "expires_in"}

----------------------------------------------------------------------------
(* C12: refresh_tokens keeps no record of the tokens it was given: a token  *)
(* signed with the secret, of type refresh, not expired at the whole second *)
(* of the clock, passes the token checks however often it was exchanged     *)
(* before, and the call then succeeds whenever the account of its subject   *)
(* is in the table and active; and no step of register, login, refresh or   *)
(* resolve turns a refresh token the caller holds from one that would be    *)
(* accepted into one that would not.                                        *)

Unexpired(token) == Genuine(token) /\ token.claims.exp >= timegm(now)

\* what refresh_tokens would answer to the token in the current state
WouldRefresh(token) ==
    /\ refresh_tokens_checks(decode_token(token, now)) = NoResult
    /\ refresh_tokens_user_checks(
           scalar_one_or_none(get_user_by_id(UUID(token.claims.sub)))) = NoResult

C12_NoRevocation ==
    [][\A p \in Procs :
        /\ (req[p].pc = "idle" /\ req'[p].op = "refresh"
            /\ Unexpired(req'[p].token)
            /\ req'[p].token.claims.type = "refresh")
              => req'[p].pc = "refresh_user"
        /\ (req[p].pc = "refresh_user" /\ req'[p].pc = "done"
            /\ \E u \in Account(UUID(req[p].token.claims.sub)) : u.is_active)
              => /\ req'[p].res.exc = ""
                 /\ req'[p].res.tokens # NoTokens
                 /\ req'[p].http.status = 200
        /\ (req'[p] # req[p] /\ wallet # NoPair
            /\ WouldRefresh(wallet.pair.refresh_token))
              => /\ users' = users \/ req[p].pc = "commit"
                 /\ now' = now
                 /\ WouldRefresh(wallet.pair.refresh_token)'
    ]_vars

\* the refresh token was exchanged, kept, and exchanged again at a later clock
C12_Witness ==
    \E p \in Procs :
        /\ Finished(p, "refresh")
        /\ wallet # NoPair
        /\ "exchanged" \in DOMAIN wallet
        /\ req[p].token = wallet.pair.refresh_token
        /\ req[p].res.exc = ""
        /\ req[p].res.at > wallet.at
        /\ req[p].res.tokens.refresh_token # req[p].token

----------------------------------------------------------------------------
(* C13: the writes of a call stay in its own session until the call has     *)
(* returned and are applied by the commit that follows, all at once: the    *)
(* users table changes under a request only at its commit, by exactly the   *)
(* row register flushed or the last_login_at login set, and that request    *)
(* then answers success; a call that ends in a failure, before or at its    *)
(* commit, leaves the table as it was, and a finished call holds no pending *)
(* write.                                                                   *)

\* the table after the pending write of request r is applied
Applied(r) ==
    IF r.op = "register" THEN users \cup {r.row}
    ELSE {IF u.id = r.row.id THEN [u EXCEPT !.last_login_at = r.row.last_login_at]
          ELSE u : u \in users}

C13_AtomicUnitOfWork ==
    [][\A p \in Procs :
        /\ (req'[p] # req[p] /\ users' # users)
              => /\ req[p].pc = "commit"
                 /\ req'[p].pc = "done"
                 /\ req'[p].res.exc = ""
                 /\ req'[p].http.status \in {200, 201}
        /\ (req[p].pc = "commit" /\ req'[p].pc = "done" /\ req'[p].res.exc = "")
              => /\ users' = Applied(req[p])
                 /\ req'[p].res = req[p].res
                 /\ req[p].op = "register" => req[p].row \in users'
                 /\ req[p].op = "login"
                       => \E u \in users' : /\ u.id = req[p].row.id
                                            /\ u.last_login_at = req[p].row.last_login_at
        /\ (req[p].pc # "done" /\ req'[p].pc = "done" /\ req'[p].res.exc # "")
              => /\ users' = users
                 /\ req'[p].http.status \notin {200, 201}
                 /\ req'[p].http.tokens = NoTokens
        /\ req'[p].pc = "done" => req'[p].row = NoRow
        /\ req[p].pc \in {"reg_username", "reg_flush", "refresh_user", "resolve_user"}
              => req[p].row = NoRow
    ]_vars

\* login had set last_login_at and returned; its commit failed because the
\* account was deleted meanwhile: the call fails and the table has no trace
C13_Witness ==
    \E p \in Procs :
        /\ Finished(p, "login")
        /\ req[p].res.exc = "StaleDataError"
        /\ req[p].user # None
        /\ req[p].http.status = 500
        /\ Account(req[p].user.id) = {}
        /\ \A u \in users : u.last_login_at = Never

----------------------------------------------------------------------------
(* C14: every refresh_tokens and get_current_user call, whatever token it   *)
(* is given, ends in success or in one of InvalidTokenError,                *)
(* UserNotFoundError and UserInactiveError, and the response is one of 200, *)
(* 401 and 403.                                                             *)

Taxonomy == {"", "InvalidTokenError", "UserNotFoundError", "UserInactiveError"}

C14_ClosedTaxonomy ==
    \A p \in Procs :
        (Finished(p, "refresh") \/ Finished(p, "resolve"))
            => /\ req[p].res.exc \in Taxonomy
               /\ req[p].http.status \in {200, 401, 403}

----------------------------------------------------------------------------
(* C15: a login whose email belongs to an account and whose password does   *)
(* not match the stored hash ends in InvalidCredentialsError (401), also    *)
(* when the stored hash is malformed or of a scheme the context does not    *)
(* support: verify_password answers false for it and raises nothing.        *)

Mismatch(password, hash) ==
    verify_password_raises(hash) # "" \/ ~verify_password(password, hash)

C15_VerifyNeverRaises ==
    \A p \in Procs :
        (Finished(p, "login") /\ req[p].user # None
         /\ Mismatch(req[p].password, req[p].user.password_hash))
            => /\ req[p].res = Raised("InvalidCredentialsError",
                                      "Invalid email or password")
               /\ req[p].http.status = 401

----------------------------------------------------------------------------
(* C16: while a request is computing a password hash, every other request   *)
(* that is waiting for the answer of its database round trip can take its   *)
(* next step.                                                               *)

\* request q is between two steps of its handler
Waiting(q) == req[q].pc \in {"reg_username", "commit"}

StepOf(q) == NextLoop /\ req'[q] # req[q]

C16_HashingOffLoop ==
    \A p \in OnLoop : \A q \in Procs \ {p} : Waiting(q) => ENABLED StepOf(q)

----------------------------------------------------------------------------
(* C17: every token pair register, login and refresh_tokens return, and     *)
(* every response that carries tokens, has expires_in equal to the          *)
(* configured ACCESS_TOKEN_EXPIRE_MINUTES in seconds, whatever the clock at *)
(* which the pair was made and whatever expiry its access token carries.    *)

SessionTtlSeconds == ACCESS_TOKEN_EXPIRE_MINUTES * SecondsPerMinute

C17_ExpiresInFromConfig ==
    /\ \A p \in Procs :
          /\ (req[p].res # NoResult /\ req[p].res.tokens # NoTokens)
                => req[p].res.tokens.expires_in = SessionTtlSeconds
          /\ (req[p].http # NoResult /\ req[p].http.tokens # NoTokens)
                => req[p].http.tokens.expires_in = SessionTtlSeconds
          /\ (req[p].pc = "done" /\ req[p].op \in {"register", "login", "refresh"}
              /\ req[p].res.exc = "")
                => /\ req[p].res.tokens # NoTokens
                   /\ req[p].http.tokens # NoTokens
    /\ wallet # NoPair => wallet.pair.expires_in = SessionTtlSeconds

\* a pair made in the middle of a second: its access token expires sooner
\* after its making than expires_in says
C17_Witness ==
    \E p \in Procs :
        /\ Finished(p, "refresh")
        /\ req[p].res.exc = ""
        /\ req[p].res.tokens.expires_in = SessionTtlSeconds
        /\ req[p].res.tokens.access_token.claims.exp * TicksPerSec - req[p].res.at
              < SessionTtlSeconds * TicksPerSec
        /\ wallet # NoPair /\ wallet.by = "login"

----------------------------------------------------------------------------
(* C18: refresh_tokens and get_current_user check in a fixed order.  A      *)
(* token that does not decode (corrupted, other secret, expired) is         *)
(* answered InvalidTokenError whatever its type and account; a decoded      *)
(* token of the other type is answered InvalidTokenError whatever the state *)
(* of its account, which is not looked up; only then the account is looked  *)
(* up, a missing one answered UserNotFoundError, an inactive one            *)
(* UserInactiveError, and an active one with success.                       *)

ExpectedType(op) == IF op = "refresh" THEN "refresh" ELSE "access"

Undecodable(token) ==
    \/ ~Genuine(token)
    \/ token.claims.exp # NoExp /\ token.claims.exp < timegm(now)

C18_CheckOrder ==
    [][\A p \in Procs :
        /\ (req[p].pc = "idle" /\ req'[p].op \in {"refresh", "resolve"})
              => LET token == req'[p].token
                     op == req'[p].op
                 IN  IF Undecodable(token)
                     THEN /\ req'[p].pc = "done"
                          /\ req'[p].res = Raised("InvalidTokenError", InvalidMessage(op))
                     ELSE IF token.claims.type # ExpectedType(op)
                     THEN /\ req'[p].pc = "done"
                          /\ req'[p].res = Raised("InvalidTokenError", "Invalid token type")
                          /\ req'[p].user = None
                     ELSE /\ req'[p].pc \in {"refresh_user", "resolve_user"}
                          /\ req'[p].res = NoResult
        /\ (req[p].pc \in {"refresh_user", "resolve_user"} /\ req'[p].pc = "done")
              => LET acct == Account(UUID(req[p].payload.sub))
                 IN  /\ req[p].payload.type = ExpectedType(req[p].op)
                     /\ req'[p].res.exc =
                           IF acct = {} THEN "UserNotFoundError"
                           ELSE IF \E u \in acct : ~u.is_active THEN "UserInactiveError"
                           ELSE ""
    ]_vars

\* an access token of a deleted account, presented to refresh: reported for
\* its type, not for its account
C18_Witness ==
    \E p \in Procs :
        /\ Finished(p, "refresh")
        /\ wallet # NoPair
        /\ req[p].token = wallet.pair.access_token
        /\ req[p].payload # None
        /\ Account(UUID(req[p].payload.sub)) = {}
        /\ req[p].res = Raised("InvalidTokenError", "Invalid token type")
        /\ req[p].http.status = 401

----------------------------------------------------------------------------
(* C19: login writes one thing.  A login that passes its checks sets        *)
(* last_login_at of the account it found to the clock of the call, and its  *)
(* commit changes that field of that account and nothing else in the table; *)
(* a login that ends in InvalidCredentialsError or UserInactiveError ends   *)
(* before any write and leaves the table, last_login_at included, as it     *)
(* was.                                                                     *)

LoginFailures == {"InvalidCredentialsError", "UserInactiveError"}

C19_LoginFrame ==
    [][\A p \in Procs :
        /\ (req[p].pc = "idle" /\ req'[p].op = "login")
              => /\ users' = users
                 /\ req'[p].pc = "commit"
                       => /\ req'[p].res.exc = ""
                          /\ req'[p].row = [id |-> req'[p].user.id,
                                            last_login_at |-> now]
                 /\ req'[p].pc = "done"
                       => /\ req'[p].res.exc \in LoginFailures
                          /\ req'[p].row = NoRow
        /\ (req[p].op = "login" /\ req[p].pc = "commit" /\ req'[p].pc = "done"
            /\ req'[p].res.exc = "")
              => /\ \A u \in users : u.id # req[p].row.id => u \in users'
                 /\ \A v \in users' : v.id # req[p].row.id => v \in users
                 /\ \A u \in Account(req[p].row.id) :
                       [u EXCEPT !.last_login_at = req[p].res.at] \in users'
                 /\ Cardinality(users') = Cardinality(users)
        /\ (req[p].op = "login" /\ req[p].pc # "done" /\ req'[p].pc = "done"
            /\ req'[p].res.exc # "")
              => users' = users
    ]_vars

\* two accounts; a finished login has stamped the one and not the other
C19_Witness ==
    \E p \in Procs :
        /\ Finished(p, "login")
        /\ req[p].res.exc = ""
        /\ \E u, v \in users :
              /\ u.id = req[p].res.user
              /\ u.last_login_at = req[p].res.at
              /\ v.id # u.id
              /\ v.last_login_at = Never

----------------------------------------------------------------------------
(* C20: no step of a register, login, refresh or resolve call removes an    *)
(* account or changes the id, email, username, password hash or active flag *)
(* of one: every account of the table is in the table after the step, the   *)
(* same but for last_login_at; and the steps of refresh and resolve calls,  *)
(* successful or not, leave the table and the ids in use exactly as they    *)
(* were.                                                                    *)

\* a step of some call, as opposed to account management or the clock
CallStep == req' # req

C20_StoreMonotone ==
    [][CallStep =>
        /\ \A u \in users :
              \E v \in users' : v = [u EXCEPT !.last_login_at = v.last_login_at]
        /\ Cardinality(users') >= Cardinality(users)
        /\ \A p \in Procs :
              (req'[p] # req[p] /\ req'[p].op \in {"refresh", "resolve"})
                 => /\ users' = users
                    /\ usedIds' = usedIds
                    /\ req'[p].row = NoRow
    ]_vars

\* after a register, a second register, a login and a successful refresh,
\* both accounts are there and only the login left a mark
C20_Witness ==
    \E p \in Procs :
        /\ Finished(p, "refresh")
        /\ req[p].res.exc = ""
        /\ wallet # NoPair /\ wallet.by = "login"
        /\ Cardinality(users) > 1
        /\ \E u \in users : u.last_login_at # Never
        /\ \A u \in users : u.is_active /\ u.password_hash.scheme = "bcrypt"

----------------------------------------------------------------------------
(* C21: every token pair a call has returned holds two tokens signed with   *)
(* the secret, each with exactly the claims sub, exp and type, of type      *)
(* access and refresh, and both with the subject of one account: the row    *)
(* register made for the request's email and username, the account login    *)
(* found by the request's email and whose hash verified the request's       *)
(* password, or the account refresh_tokens looked up from the subject of    *)
(* the presented token.                                                     *)

ClaimNames == {"sub", "exp", "type"}

IssuedFor(pair, id) ==
    /\ Genuine(pair.access_token) /\ Genuine(pair.refresh_token)
    /\ DOMAIN pair.access_token.claims = ClaimNames
    /\ DOMAIN pair.refresh_token.claims = ClaimNames
    /\ pair.access_token.claims.type = "access"
    /\ pair.refresh_token.claims.type = "refresh"
    /\ pair.access_token.claims.sub = str_id(id)
    /\ pair.refresh_token.claims.sub = str_id(id)

C21_SubjectBinding ==
    \A p \in Procs :
        (req[p].res # NoResult /\ req[p].res.tokens # NoTokens)
           => /\ req[p].user \notin {None, MultipleResults}
              /\ IssuedFor(req[p].res.tokens, req[p].user.id)
              /\ req[p].op \in {"register", "login", "refresh"}
              /\ req[p].op = "register"
                    => /\ req[p].res.user = req[p].user.id
                       /\ req[p].user.email = req[p].email
                       /\ req[p].user.username = req[p].username
                       /\ req[p].user.id \in 1..usedIds
              /\ req[p].op = "login"
                    => /\ req[p].res.user = req[p].user.id
                       /\ req[p].user.email = req[p].email
                       /\ verify_password(req[p].password, req[p].user.password_hash)
              /\ req[p].op = "refresh"
                    => /\ Genuine(req[p].token)
                       /\ req[p].token.claims.type = "refresh"
                       /\ req[p].token.claims.sub = str_id(req[p].user.id)

\* the caller holds the pair of one account; a login of the other account
\* has returned a pair with that other account's subject
C21_Witness ==
    \E p \in Procs :
        /\ Finished(p, "login")
        /\ req[p].res.exc = ""
        /\ wallet # NoPair
        /\ wallet.pair.access_token.claims.sub # str_id(req[p].user.id)
        /\ IssuedFor(req[p].res.tokens, req[p].user.id)
        /\ Account(UUID(wallet.pair.access_token.claims.sub)) # {}

----------------------------------------------------------------------------
(* C22: the row register makes stores get_password_hash of the request's    *)
(* password under some salt, a bcrypt hash, and the password in no other    *)
(* column; every row of the table, committed or pending, holds such a hash; *)
(* and a login reaches its success path only when verify_password of the    *)
(* request's password against the stored hash of the account found holds.   *)

HashesOf(password) == {get_password_hash(password, salt) : salt \in Salts}

AllHashes == UNION {HashesOf(password) : password \in Passwords}

C22_PasswordStoredHashed ==
    [][\A p \in Procs :
        /\ (req[p].pc = "reg_flush" /\ req'[p].pc = "commit")
              => /\ req'[p].row.password_hash \in HashesOf(req[p].password)
                 /\ req'[p].row.password_hash.scheme = "bcrypt"
                 /\ req'[p].row.email # req[p].password
                 /\ req'[p].row.username # req[p].password
                 /\ DOMAIN req'[p].row = {"id", "email", "username", "password_hash",
                                          "is_active", "last_login_at"}
        /\ (req[p].pc = "idle" /\ req'[p].op = "login" /\ req'[p].pc = "commit")
              => /\ verify_password_raises(req'[p].user.password_hash) = ""
                 /\ verify_password(req'[p].password, req'[p].user.password_hash)
                 /\ req'[p].user.password_hash \in HashesOf(req'[p].password)
        /\ \A u \in users' \cup Flushed' : u.password_hash \in AllHashes
    ]_vars

\* two accounts registered with one password hold different hashes, and a
\* login to one of them has passed
C22_Witness ==
    \E p \in Procs :
        /\ Finished(p, "login")
        /\ req[p].res.exc = ""
        /\ \E u, v \in users :
              /\ u.id = req[p].user.id
              /\ v.id # u.id
              /\ verify_password(req[p].password, u.password_hash)
              /\ verify_password(req[p].password, v.password_hash)
              /\ u.password_hash # v.password_hash

----------------------------------------------------------------------------
(* C23: every finished call that ended in an AuthServiceError has an HTTP   *)
(* error response of the status of its kind: UserAlreadyExistsError 400,    *)
(* InvalidCredentialsError, InvalidTokenError and UserNotFoundError 401,    *)
(* UserInactiveError 403, in login, refresh and resolve alike, with the     *)
(* message of the error and without user or tokens; each operation raises   *)
(* only the AuthServiceErrors its endpoint catches; and a response is a     *)
(* success (200, 201) exactly when the call returned.                       *)

AuthServiceErrors ==
    {"UserAlreadyExistsError", "InvalidCredentialsError", "UserInactiveError",
     "InvalidTokenError", "UserNotFoundError"}

StatusOf(exc) ==
    IF exc = "UserAlreadyExistsError" THEN 400
    ELSE IF exc = "UserInactiveError" THEN 403
    ELSE 401

RaisedBy(op) ==
    IF op = "register" THEN {"UserAlreadyExistsError"}
    ELSE IF op = "login" THEN {"InvalidCredentialsError", "UserInactiveError"}
    ELSE {"InvalidTokenError", "UserNotFoundError", "UserInactiveError"}

C23_BoundaryTranslation ==
    \A p \in Procs :
        req[p].pc = "done" =>
            LET res == req[p].res
                http == req[p].http
            IN  /\ res.exc \in AuthServiceErrors
                      => /\ res.exc \in RaisedBy(req[p].op)
                         /\ http.status = StatusOf(res.exc)
                         /\ http.message = res.msg
                         /\ http.tokens = NoTokens
                         /\ http.user = NoId
                /\ (http.status \in {200, 201}) <=> (res.exc = "")
                /\ res.exc = "" => http.status = IF req[p].op = "register" THEN 201 ELSE 200

\* a deactivated account: its access token is answered 403 by the dependency
C23_Witness ==
    \E p \in Procs :
        /\ Finished(p, "resolve")
        /\ req[p].res = Raised("UserInactiveError", "User account is inactive")
        /\ req[p].http.status = 403
        /\ req[p].http.message = "User account is inactive"

----------------------------------------------------------------------------
(* C24: a MusicService call made with owner_id o returns only songs whose   *)
(* owner_id is o; every row a step changes or removes, and every file a     *)
(* step removes, belongs to a song of the owner the stepping call was made  *)
(* for; and update_song, delete_song and increment_play_count given the id  *)
(* of a song of another owner end at once with SongNotFoundError, table and *)
(* files as they were.                                                      *)

OwnerScoped == {"update_song", "delete_song", "increment_play_count"}

\* slot m takes a step
Steps(m) == calls'[m] # calls[m]

\* the song id of the call belongs to a song of another owner
Foreign(c) ==
    \E song \in songs : song.id = c.song_id /\ song.owner_id # c.owner_id

C24_OwnerIsolation ==
    [][ /\ \A m \in MProcs :
              calls'[m].pc = "done" =>
                  \A song \in calls'[m].res.songs : song.owner_id = calls'[m].owner_id
        /\ \A row \in songs \ songs' :
              \E m \in MProcs : Steps(m) /\ row.owner_id = calls[m].owner_id
        /\ \A path \in files \ files' :
              \E m \in MProcs, song \in songs :
                  /\ Steps(m)
                  /\ path \in {song.file_path, song.cover_art_path}
                  /\ song.owner_id = calls[m].owner_id
        /\ \A m \in MProcs :
              (/\ calls[m].pc = "idle"
               /\ Steps(m)
               /\ calls'[m].op \in OwnerScoped
               /\ Foreign(calls'[m]))
                  => /\ calls'[m].pc = "done"
                     /\ calls'[m].res = SongNotFound
                     /\ songs' = songs
                     /\ files' = files
      ]_vars

\* a call for one owner has named the song of the other owner and was
\* answered SongNotFoundError, while the owner of that song has played it
C24_Witness ==
    \E m \in MProcs :
        /\ calls[m].pc = "done"
        /\ calls[m].op \in OwnerScoped
        /\ calls[m].res = SongNotFound
        /\ \E song \in songs :
              /\ song.id = calls[m].song_id
              /\ song.owner_id # calls[m].owner_id
              /\ song.play_count > 0
              /\ song.file_path \in files

----------------------------------------------------------------------------
(* C25: every successful call of increment_play_count raises the song's     *)
(* play_count by exactly one, also when the calls of concurrent requests    *)
(* interleave: the step that makes a successful increment take effect       *)
(* leaves the play_count of the song one above what it was, so that k       *)
(* successful calls add k.                                                  *)

\* slot m completes a successful increment_play_count in this step
IncrementTakesEffect(m) ==
    /\ calls[m].op = "increment_play_count"
    /\ calls[m].pc = "commit"
    /\ calls'[m].pc = "done"
    /\ calls'[m].res.exc = ""

C25_NoLostIncrement ==
    [][ \A m \in MProcs :
            IncrementTakesEffect(m) =>
                \A row \in songs :
                    row.id = calls[m].song_id =>
                        \E after \in songs' :
                            /\ after.id = row.id
                            /\ after.play_count = row.play_count + 1
      ]_vars

----------------------------------------------------------------------------
(* C26: in every state reached through upload_song and delete_song, also    *)
(* after a step of either has failed, every song row of the table refers    *)
(* to an audio file that exists in storage.                                 *)

C26_RowFileConsistency ==
    \A song \in songs : song.file_path \in files

----------------------------------------------------------------------------
(* C27: update_song changes only what the SongUpdate set: when its update   *)
(* takes effect, the song holds the given value in every field that was     *)
(* set and its previous value in every other field, every other song and    *)
(* every file is as before; no other step of the call changes table or      *)
(* files; and when no song of that id belongs to the owner, the call ends   *)
(* with SongNotFoundError and nothing has changed.                          *)

\* slot m completes a successful update_song in this step
UpdateTakesEffect(m) ==
    /\ calls[m].op = "update_song"
    /\ calls[m].pc = "commit"
    /\ calls'[m].pc = "done"
    /\ calls'[m].res.exc = ""

C27_UpdateFrame ==
    [][ \A m \in MProcs :
          /\ UpdateTakesEffect(m) =>
                /\ files' = files
                /\ {row.id : row \in songs'} = {row.id : row \in songs}
                /\ \A row \in songs :
                      IF row.id # calls[m].song_id
                      THEN row \in songs'
                      ELSE \E after \in songs' :
                              /\ after.id = row.id
                              /\ \A field \in DOMAIN row :
                                    after[field] =
                                        IF field \in calls[m].update_data.fields_set
                                        THEN calls[m].update_data[field]
                                        ELSE row[field]
          /\ (Steps(m) /\ calls'[m].op = "update_song" /\ ~UpdateTakesEffect(m))
                => songs' = songs /\ files' = files
          /\ (/\ calls[m].pc = "idle"
              /\ calls'[m].op = "update_song"
              /\ \A song \in songs :
                    ~(song.id = calls'[m].song_id /\ song.owner_id = calls'[m].owner_id))
                => /\ calls'[m].pc = "done"
                   /\ calls'[m].res = SongNotFound
      ]_vars

\* a rated song has been renamed by an update that set the title alone, and
\* the library holds another song
C27_Witness ==
    \E m \in MProcs :
        /\ calls[m].pc = "done"
        /\ calls[m].op = "update_song"
        /\ calls[m].res.exc = ""
        /\ calls[m].update_data.fields_set = {"title"}
        /\ calls[m].song.title # calls[m].update_data.title
        /\ \E song, other \in songs :
              /\ song.id = calls[m].song_id
              /\ song.title = calls[m].update_data.title
              /\ song.rating = 5
              /\ other.id # song.id

====
